---------------------------- MODULE Spec2Model ----------------------------
(***************************************************************************)
(* Model of the PSA safety hooks of board/safety/safety_psa.h: the static  *)
(* message catalog, the receive hook, the transmit hook, the forwarding    *)
(* hook and the init hook, as called by the host safety framework.         *)
(***************************************************************************)
EXTENDS Integers, Sequences, FiniteSets

(***************************************************************************)
(* Message identifiers and bus numbers.                                    *)
(***************************************************************************)
PSA_DRIVER == 1390
PSA_DAT_BSI == 1042
PSA_LANE_KEEP_ASSIST == 1010
PSA_HS2_DYN_ABR_38D == 909
PSA_HS2_DAT_MDD_CMD_452 == 1106

PSA_MAIN_BUS == 0
PSA_ADAS_BUS == 1
PSA_CAM_BUS == 2

(***************************************************************************)
(* Bounds of the model.                                                    *)
(***************************************************************************)
\* Highest bus number a frame is enumerated with (0..2 are the PSA buses).
MaxBus == 3
\* Longest chain of forwarding decisions followed for one frame.
MaxHops == 8

Buses == 0..MaxBus

\* Identifiers the hooks are called with: the five the code names, and one
\* it does not know (552, commented out in the source).
Addrs ==
  {PSA_DRIVER, PSA_DAT_BSI, PSA_LANE_KEEP_ASSIST, PSA_HS2_DYN_ABR_38D,
   PSA_HS2_DAT_MDD_CMD_452, 552}

\* Sample payloads, as <<data_len_code, data>>.  Bytes 0..3 are the ones the
\* receive hook reads: 32 is bit 5 alone, 223 every bit but bit 5, 128 is
\* bit 7 alone, 127 every bit but bit 7, <<9, 196>> is 2500 big-endian.
Payloads ==
  { <<8, <<0, 0, 0, 0, 0, 0, 0, 0>>>>,
    <<8, <<32, 0, 128, 1, 0, 0, 0, 0>>>>,
    <<8, <<223, 255, 127, 0, 16, 0, 255, 252>>>>,
    <<8, <<9, 196, 0, 255, 8, 0, 0, 4>>>>,
    <<6, <<0, 1, 255, 0, 16, 255, 0, 0>>>> }

\* CANPacket_t: the fields the hooks read.
Frames ==
  { [bus |-> b, addr |-> a, data_len_code |-> p[1], data |-> p[2]] :
      b \in Buses, a \in Addrs, p \in Payloads }

\* uint16_t param of psa_init.
Params == {0, 1, 65535}

(***************************************************************************)
(* Accessors of the framework (not in this file's source).                 *)
(***************************************************************************)
GET_BUS(msg) == msg.bus

GET_ADDR(msg) == msg.addr

GET_LEN(msg) == msg.data_len_code

GET_BYTE(msg, b) == msg.data[b + 1]

\* Bit b of the payload, counting from the least-significant bit of byte 0.
GET_BIT(msg, b) == ((msg.data[(b \div 8) + 1] \div (2 ^ (b % 8))) % 2) = 1

(***************************************************************************)
(* The message catalog.                                                    *)
(***************************************************************************)
\* Mutant: a second whitelist entry, on the main bus.
PSA_TX_MSGS_main_too ==
  << [addr |-> PSA_LANE_KEEP_ASSIST, bus |-> PSA_CAM_BUS, len |-> 8],
     [addr |-> PSA_LANE_KEEP_ASSIST, bus |-> PSA_MAIN_BUS, len |-> 8] >>

PSA_TX_MSGS ==
  << [addr |-> PSA_LANE_KEEP_ASSIST, bus |-> PSA_CAM_BUS, len |-> 8] >>

psa_rx_checks ==
  << [addr |-> PSA_DRIVER, bus |-> PSA_MAIN_BUS, len |-> 6, frequency |-> 10],
     [addr |-> PSA_DAT_BSI, bus |-> PSA_MAIN_BUS, len |-> 8, frequency |-> 20],
     [addr |-> PSA_HS2_DYN_ABR_38D, bus |-> PSA_ADAS_BUS, len |-> 8,
      frequency |-> 25],
     [addr |-> PSA_HS2_DAT_MDD_CMD_452, bus |-> PSA_ADAS_BUS, len |-> 6,
      frequency |-> 20] >>

\* Mutant: the check compares with the wrong identifier.
psa_lkas_msg_check_wrong_id(addr) == addr = PSA_DAT_BSI

psa_lkas_msg_check(addr) == addr = PSA_LANE_KEEP_ASSIST

VARIABLES
  brake_pressed,        \* vehicle state: brake pedal
  gas_pressed,          \* vehicle state: gas pedal
  vehicle_moving,       \* vehicle state: in motion
  vehicle_speed,        \* vehicle state: last speed handed to the setter
  cruise_engaged_prev,  \* vehicle state: last cruise bit handed to the updater
  safety_config,        \* the configuration psa_init handed to the framework
  call,                 \* the last hook call: its arguments, result, effects
  fwd_addr,             \* forwarding chain: the identifier of the frame
  fwd_path,             \* forwarding chain: the buses it went through
  wire,                 \* device: the last frame handled and the bus it left on
  fwd_probe,            \* history: one earlier forwarding decision
  rx_last               \* history: the last payload of each signal message

vars ==
  <<brake_pressed, gas_pressed, vehicle_moving, vehicle_speed,
    cruise_engaged_prev, safety_config, call, fwd_addr, fwd_path, wire,
    fwd_probe, rx_last>>

\* The variables only the auxiliary specifications move.
aux_vars == <<fwd_addr, fwd_path, wire, fwd_probe, rx_last>>

vehicle_vars ==
  <<brake_pressed, gas_pressed, vehicle_moving, vehicle_speed,
    cruise_engaged_prev>>

\* The vehicle state as a hook finds it, with no effect logged yet.
HookEntry ==
  [brake_pressed |-> brake_pressed, gas_pressed |-> gas_pressed,
   vehicle_moving |-> vehicle_moving, vehicle_speed |-> vehicle_speed,
   cruise_engaged_prev |-> cruise_engaged_prev, wrote |-> {}, calls |-> <<>>]

\* speed * 0.01 as an exact fraction.
Times0_01(speed) == [num |-> speed, den |-> 100]

(***************************************************************************)
(* External subsystems the receive hook calls into.  Each call is logged   *)
(* in the hook's effects; the setter and the updater keep the value they   *)
(* were handed.                                                            *)
(***************************************************************************)
generic_rx_checks(s, stock_ecu_detected) ==
  [s EXCEPT !.calls =
     Append(@, [fn |-> "generic_rx_checks", arg |-> stock_ecu_detected])]

UPDATE_VEHICLE_SPEED(s, val_ms) ==
  [s EXCEPT !.vehicle_speed = val_ms,
            !.wrote = @ \cup {"vehicle_speed"},
            !.calls = Append(@, [fn |-> "UPDATE_VEHICLE_SPEED", arg |-> val_ms])]

pcm_cruise_check(s, cruise_engaged) ==
  [s EXCEPT !.cruise_engaged_prev = cruise_engaged,
            !.wrote = @ \cup {"cruise_engaged_prev"},
            !.calls = Append(@, [fn |-> "pcm_cruise_check", arg |-> cruise_engaged])]

(***************************************************************************)
(* psa_rx_hook.  The signals it decodes, then the hook itself, statement   *)
(* by statement over a record s of the vehicle state and the effects so    *)
(* far (wrote: the fields assigned; calls: the external calls made).       *)
(***************************************************************************)
\* Mutant: the brake bit read one position too low.
P013_MainBrake_bit4(to_push) == GET_BIT(to_push, 4)

P013_MainBrake(to_push) == GET_BIT(to_push, 5)

\* Mutant: the gas pedal read from the byte before.
GAS_PEDAL_byte2(to_push) == GET_BYTE(to_push, 2) > 0

GAS_PEDAL(to_push) == GET_BYTE(to_push, 3) > 0

\* Mutant: the wheel speed decoded little-endian.
VITESSE_VEHICULE_ROUES_le(to_push) ==
  (GET_BYTE(to_push, 1) * 256) + GET_BYTE(to_push, 0)

\* (byte0 << 8) | byte1: the low 8 bits of byte0 << 8 are 0, so | adds.
VITESSE_VEHICULE_ROUES(to_push) ==
  (GET_BYTE(to_push, 0) * 256) + GET_BYTE(to_push, 1)

\* Mutant: the cruise bit read from bit 0 of byte 2 instead of bit 7.
DDE_ACTIVATION_RVV_ACC_bit16(to_push) == GET_BIT(to_push, 16)

DDE_ACTIVATION_RVV_ACC(to_push) == GET_BIT(to_push, 23)

\* Mutant: the brake assignment is not guarded by the identifier test, so
\* any other camera-bus frame clears it.
psa_rx_hook_brake_unguarded(s, to_push) ==
  LET bus == GET_BUS(to_push)
      addr == GET_ADDR(to_push)
      cam == bus = PSA_CAM_BUS
      adas == bus = PSA_ADAS_BUS
      s1 == IF cam
              THEN [s EXCEPT !.brake_pressed =
                               addr = PSA_DAT_BSI /\ P013_MainBrake(to_push),
                             !.wrote = @ \cup {"brake_pressed"}]
              ELSE s
      s2 == IF cam /\ addr = PSA_DRIVER
              THEN [s1 EXCEPT !.gas_pressed = GAS_PEDAL(to_push),
                              !.wrote = @ \cup {"gas_pressed"}]
              ELSE s1
      s3 == IF cam
              THEN generic_rx_checks(s2, psa_lkas_msg_check(addr))
              ELSE s2
      speed == VITESSE_VEHICULE_ROUES(to_push)
      s4 == IF adas /\ addr = PSA_HS2_DYN_ABR_38D
              THEN UPDATE_VEHICLE_SPEED(
                     [s3 EXCEPT !.vehicle_moving = speed > 0,
                                !.wrote = @ \cup {"vehicle_moving"}],
                     Times0_01(speed))
              ELSE s3
      s5 == IF adas /\ addr = PSA_HS2_DAT_MDD_CMD_452
              THEN pcm_cruise_check(s4, DDE_ACTIVATION_RVV_ACC(to_push))
              ELSE s4
  IN  s5

\* Mutant: the brake message is read on the bus the catalog declares for it.
psa_rx_hook_brake_on_main(s, to_push) ==
  LET bus == GET_BUS(to_push)
      addr == GET_ADDR(to_push)
      cam == bus = PSA_CAM_BUS
      adas == bus = PSA_ADAS_BUS
      s1 == IF bus = PSA_MAIN_BUS /\ addr = PSA_DAT_BSI
              THEN [s EXCEPT !.brake_pressed = P013_MainBrake(to_push),
                             !.wrote = @ \cup {"brake_pressed"}]
              ELSE s
      s2 == IF cam /\ addr = PSA_DRIVER
              THEN [s1 EXCEPT !.gas_pressed = GAS_PEDAL(to_push),
                              !.wrote = @ \cup {"gas_pressed"}]
              ELSE s1
      s3 == IF cam
              THEN generic_rx_checks(s2, psa_lkas_msg_check(addr))
              ELSE s2
      speed == VITESSE_VEHICULE_ROUES(to_push)
      s4 == IF adas /\ addr = PSA_HS2_DYN_ABR_38D
              THEN UPDATE_VEHICLE_SPEED(
                     [s3 EXCEPT !.vehicle_moving = speed > 0,
                                !.wrote = @ \cup {"vehicle_moving"}],
                     Times0_01(speed))
              ELSE s3
      s5 == IF adas /\ addr = PSA_HS2_DAT_MDD_CMD_452
              THEN pcm_cruise_check(s4, DDE_ACTIVATION_RVV_ACC(to_push))
              ELSE s4
  IN  s5

psa_rx_hook(s, to_push) ==
  LET bus == GET_BUS(to_push)
      addr == GET_ADDR(to_push)
      cam == bus = PSA_CAM_BUS
      adas == bus = PSA_ADAS_BUS
      s1 == IF cam /\ addr = PSA_DAT_BSI
              THEN [s EXCEPT !.brake_pressed = P013_MainBrake(to_push),
                             !.wrote = @ \cup {"brake_pressed"}]
              ELSE s
      s2 == IF cam /\ addr = PSA_DRIVER
              THEN [s1 EXCEPT !.gas_pressed = GAS_PEDAL(to_push),
                              !.wrote = @ \cup {"gas_pressed"}]
              ELSE s1
      s3 == IF cam
              THEN generic_rx_checks(s2, psa_lkas_msg_check(addr))
              ELSE s2
      speed == VITESSE_VEHICULE_ROUES(to_push)
      s4 == IF adas /\ addr = PSA_HS2_DYN_ABR_38D
              THEN UPDATE_VEHICLE_SPEED(
                     [s3 EXCEPT !.vehicle_moving = speed > 0,
                                !.wrote = @ \cup {"vehicle_moving"}],
                     Times0_01(speed))
              ELSE s3
      s5 == IF adas /\ addr = PSA_HS2_DAT_MDD_CMD_452
              THEN pcm_cruise_check(s4, DDE_ACTIVATION_RVV_ACC(to_push))
              ELSE s4
  IN  s5

(***************************************************************************)
(* psa_tx_hook: tx is true and every check is commented out.               *)
(***************************************************************************)
\* Mutant: only the lateral-control command is let through.
psa_tx_hook_lka_only(to_send) == GET_ADDR(to_send) = PSA_LANE_KEEP_ASSIST

\* Mutant: the veto is enforced on every lateral-control frame.
psa_tx_hook_blocks_lka(to_send) == GET_ADDR(to_send) # PSA_LANE_KEEP_ASSIST

psa_tx_hook(to_send) == TRUE

\* The external calls psa_tx_hook makes: none, the limit check is among the
\* commented-out lines.
psa_tx_hook_calls(to_send) == <<>>

(***************************************************************************)
(* psa_fwd_hook.                                                           *)
(***************************************************************************)
\* Mutant: the stock lateral-control message is forwarded like the rest.
psa_fwd_hook_no_block(bus_num, addr) ==
  CASE bus_num = PSA_MAIN_BUS -> PSA_CAM_BUS
    [] bus_num = PSA_CAM_BUS -> PSA_MAIN_BUS
    [] OTHER -> -1

\* Mutant: the default branch forwards to the main bus.
psa_fwd_hook_default_main(bus_num, addr) ==
  CASE bus_num = PSA_MAIN_BUS ->
         IF psa_lkas_msg_check(addr) THEN -1 ELSE PSA_CAM_BUS
    [] bus_num = PSA_CAM_BUS -> PSA_MAIN_BUS
    [] OTHER -> PSA_MAIN_BUS

\* Mutant: the stock lateral-control message is blocked only while cruise
\* is engaged.
psa_fwd_hook_block_when_engaged(bus_num, addr) ==
  CASE bus_num = PSA_MAIN_BUS ->
         IF psa_lkas_msg_check(addr) /\ cruise_engaged_prev
           THEN -1
           ELSE PSA_CAM_BUS
    [] bus_num = PSA_CAM_BUS -> PSA_MAIN_BUS
    [] OTHER -> -1

\* Mutant: the stock lateral-control check sits in the camera-bus branch.
psa_fwd_hook_block_in_cam(bus_num, addr) ==
  CASE bus_num = PSA_MAIN_BUS -> PSA_CAM_BUS
    [] bus_num = PSA_CAM_BUS ->
         IF psa_lkas_msg_check(addr) THEN -1 ELSE PSA_MAIN_BUS
    [] OTHER -> -1

psa_fwd_hook(bus_num, addr) ==
  CASE bus_num = PSA_MAIN_BUS ->
         IF psa_lkas_msg_check(addr) THEN -1 ELSE PSA_CAM_BUS
    [] bus_num = PSA_CAM_BUS -> PSA_MAIN_BUS
    [] OTHER -> -1

(***************************************************************************)
(* psa_init.                                                               *)
(***************************************************************************)
BUILD_SAFETY_CFG(rx, tx) == [rx_checks |-> rx, tx_msgs |-> tx]

psa_init(param) == BUILD_SAFETY_CFG(psa_rx_checks, PSA_TX_MSGS)

(***************************************************************************)
(* The framework's transmit whitelist: a frame may be originated only if   *)
(* its identifier, bus and length match an entry of the registered list,   *)
(* and only if the transmit hook allows it.                                *)
(***************************************************************************)
msg_allowed(to_send, msg_list) ==
  \E i \in DOMAIN msg_list :
    /\ GET_ADDR(to_send) = msg_list[i].addr
    /\ GET_BUS(to_send) = msg_list[i].bus
    /\ GET_LEN(to_send) = msg_list[i].len

(***************************************************************************)
(* The state machine: the framework calls one hook at a time, each to      *)
(* completion.                                                             *)
(***************************************************************************)
NoFrame == [bus |-> 0, addr |-> 0, data_len_code |-> 0,
            data |-> <<0, 0, 0, 0, 0, 0, 0, 0>>]

NoCall ==
  [op |-> "none", frame |-> NoFrame, param |-> 0, violation |-> FALSE,
   tx_ret |-> TRUE, whitelisted |-> FALSE, fwd_ret |-> -1,
   wrote |-> {}, calls |-> <<>>]

\* Nothing handled yet by the device; no decision remembered; no signal
\* message received.
NoWire == [op |-> "none", frame |-> NoFrame, dst |-> -1]

NoProbe ==
  [set |-> FALSE, bus_num |-> 0, addr |-> 0, ret |-> -1, at |-> <<>>]

NoRxLast == [brake |-> <<>>, gas |-> <<>>, speed |-> <<>>, cruise |-> <<>>]

Init ==
  /\ brake_pressed = FALSE
  /\ gas_pressed = FALSE
  /\ vehicle_moving = FALSE
  /\ vehicle_speed = Times0_01(0)
  /\ cruise_engaged_prev = FALSE
  /\ safety_config = psa_init(0)
  /\ call = NoCall
  /\ fwd_addr = 0
  /\ fwd_path = <<>>
  /\ wire = NoWire
  /\ fwd_probe = NoProbe
  /\ rx_last = NoRxLast

\* The vehicle state psa_rx_hook leaves for to_push.
RxState(to_push) ==
  LET s == psa_rx_hook(HookEntry, to_push)
  IN  /\ brake_pressed' = s.brake_pressed
      /\ gas_pressed' = s.gas_pressed
      /\ vehicle_moving' = s.vehicle_moving
      /\ vehicle_speed' = s.vehicle_speed
      /\ cruise_engaged_prev' = s.cruise_engaged_prev

\* The framework hands a received frame to psa_rx_hook.
RxHook ==
  \E to_push \in Frames :
    LET s == psa_rx_hook(HookEntry, to_push)
    IN  /\ RxState(to_push)
        /\ call' = [NoCall EXCEPT !.op = "rx", !.frame = to_push,
                                  !.wrote = s.wrote, !.calls = s.calls]
        /\ UNCHANGED <<safety_config, aux_vars>>

\* The controller queues a frame; violation is what the angle-rate-limit
\* check reports for it (the hook as written never asks).
TxHook ==
  \E to_send \in Frames, violation \in BOOLEAN :
    /\ call' = [NoCall EXCEPT
                  !.op = "tx", !.frame = to_send, !.violation = violation,
                  !.whitelisted = msg_allowed(to_send, safety_config.tx_msgs),
                  !.tx_ret = psa_tx_hook(to_send),
                  !.calls = psa_tx_hook_calls(to_send)]
    /\ UNCHANGED <<vehicle_vars, safety_config, aux_vars>>

\* The framework asks where to forward a frame seen on bus_num.
FwdHook ==
  \E bus_num \in Buses, addr \in Addrs :
    /\ call' = [NoCall EXCEPT
                  !.op = "fwd", !.frame = [NoFrame EXCEPT !.bus = bus_num,
                                                          !.addr = addr],
                  !.fwd_ret = psa_fwd_hook(bus_num, addr)]
    /\ UNCHANGED <<vehicle_vars, safety_config, aux_vars>>

\* Mutant: selecting the mode also puts the vehicle state back to its defaults.
InitHook_resets_state ==
  \E param \in Params :
    /\ safety_config' = psa_init(param)
    /\ call' = [NoCall EXCEPT !.op = "init", !.param = param]
    /\ brake_pressed' = FALSE
    /\ gas_pressed' = FALSE
    /\ vehicle_moving' = FALSE
    /\ vehicle_speed' = Times0_01(0)
    /\ cruise_engaged_prev' = FALSE
    /\ UNCHANGED aux_vars

\* The framework (re)selects the safety mode.
InitHook ==
  \E param \in Params :
    /\ safety_config' = psa_init(param)
    /\ call' = [NoCall EXCEPT !.op = "init", !.param = param]
    /\ UNCHANGED <<vehicle_vars, aux_vars>>

Next == RxHook \/ TxHook \/ FwdHook \/ InitHook

Spec == Init /\ [][Next]_vars

(***************************************************************************)
(* The forwarding decision applied repeatedly to one frame: each forwarded *)
(* frame is taken as arriving on its destination bus.  fwd_path holds the  *)
(* buses in order, ending in -1 once the frame is not forwarded.           *)
(***************************************************************************)
Last(path) == path[Len(path)]

InitFwd ==
  /\ brake_pressed = FALSE
  /\ gas_pressed = FALSE
  /\ vehicle_moving = FALSE
  /\ vehicle_speed = Times0_01(0)
  /\ cruise_engaged_prev = FALSE
  /\ safety_config = psa_init(0)
  /\ call = NoCall
  /\ fwd_addr \in Addrs
  /\ \E bus_num \in Buses : fwd_path = <<bus_num>>
  /\ wire = NoWire
  /\ fwd_probe = NoProbe
  /\ rx_last = NoRxLast

FwdChainStep ==
  /\ Len(fwd_path) <= MaxHops
  /\ Last(fwd_path) # -1
  /\ fwd_path' = Append(fwd_path, psa_fwd_hook(Last(fwd_path), fwd_addr))
  /\ UNCHANGED <<vehicle_vars, safety_config, call, fwd_addr, wire,
                 fwd_probe, rx_last>>

NextFwd == FwdChainStep

SpecFwd == InitFwd /\ [][NextFwd]_vars

(***************************************************************************)
(* The device around the hooks.  A received frame goes to psa_rx_hook and  *)
(* then to psa_fwd_hook, and is put on the bus that one names, if any; a   *)
(* frame the controller sends is put on its own bus if it matches the      *)
(* whitelist and psa_tx_hook allows it.  wire.dst is the bus the frame     *)
(* left on, -1 if it did not.                                              *)
(***************************************************************************)
DevReceive ==
  \E to_push \in Frames :
    /\ RxState(to_push)
    /\ wire' = [op |-> "rx", frame |-> to_push,
                dst |-> psa_fwd_hook(GET_BUS(to_push), GET_ADDR(to_push))]
    /\ UNCHANGED <<safety_config, call, fwd_addr, fwd_path, fwd_probe,
                   rx_last>>

DevTransmit ==
  \E to_send \in Frames :
    /\ wire' = [op |-> "tx", frame |-> to_send,
                dst |-> IF /\ msg_allowed(to_send, safety_config.tx_msgs)
                           /\ psa_tx_hook(to_send)
                          THEN GET_BUS(to_send)
                          ELSE -1]
    /\ UNCHANGED <<vehicle_vars, safety_config, call, fwd_addr, fwd_path,
                   fwd_probe, rx_last>>

NextDev == DevReceive \/ DevTransmit

SpecDev == Init /\ [][NextDev]_vars

(***************************************************************************)
(* Forwarding decisions across changes of the vehicle state.  ProbeFwd is  *)
(* a psa_fwd_hook call whose arguments and result are remembered, with the  *)
(* vehicle state it was made in; ProbeRx is a psa_rx_hook call.            *)
(***************************************************************************)
ProbeRx ==
  \E to_push \in Frames :
    /\ RxState(to_push)
    /\ UNCHANGED <<safety_config, call, aux_vars>>

ProbeFwd ==
  \E bus_num \in Buses, addr \in Addrs :
    /\ fwd_probe' = [set |-> TRUE, bus_num |-> bus_num, addr |-> addr,
                     ret |-> psa_fwd_hook(bus_num, addr),
                     at |-> vehicle_vars]
    /\ UNCHANGED <<vehicle_vars, safety_config, call, fwd_addr, fwd_path,
                   wire, rx_last>>

NextProbe == ProbeRx \/ ProbeFwd

SpecProbe == Init /\ [][NextProbe]_vars

(***************************************************************************)
(* Received frames with their history: HistRx is a psa_rx_hook call that   *)
(* also remembers, for each of the four signal messages, the payload of    *)
(* the most recent frame received with that bus and identifier.            *)
(***************************************************************************)
HistRx ==
  \E to_push \in Frames :
    LET bus == GET_BUS(to_push)
        addr == GET_ADDR(to_push)
        field ==
          CASE bus = PSA_CAM_BUS /\ addr = PSA_DAT_BSI -> "brake"
            [] bus = PSA_CAM_BUS /\ addr = PSA_DRIVER -> "gas"
            [] bus = PSA_ADAS_BUS /\ addr = PSA_HS2_DYN_ABR_38D -> "speed"
            [] bus = PSA_ADAS_BUS /\ addr = PSA_HS2_DAT_MDD_CMD_452 -> "cruise"
            [] OTHER -> "none"
    IN  /\ RxState(to_push)
        /\ rx_last' = IF field = "none"
                        THEN rx_last
                        ELSE [rx_last EXCEPT ![field] = to_push.data]
        /\ UNCHANGED <<safety_config, call, fwd_addr, fwd_path, wire,
                       fwd_probe>>

NextHist == HistRx

SpecHist == Init /\ [][NextHist]_vars

(***************************************************************************)
(* Properties.                                                             *)
(***************************************************************************)
IsRx(bus, addr) ==
  call.op = "rx" /\ call.frame.bus = bus /\ call.frame.addr = addr

\* Bit n of a byte value, bit 0 the least significant.
BitOf(byte, n) == ((byte \div (2 ^ n)) % 2) = 1

\* The external calls of the last hook call that went to fn.
CallsTo(fn) == SelectSeq(call.calls, LAMBDA c : c.fn = fn)

\* C1: psa_fwd_hook(b, a) is -1 for (main, 1010), the camera bus for any
\* other identifier on the main bus, the main bus for every identifier on
\* the camera bus, and -1 for every other bus.
C1_FwdTable ==
  call.op = "fwd" =>
    LET b == call.frame.bus
        a == call.frame.addr
        r == call.fwd_ret
    IN  /\ (b = 0 /\ a = 1010) => r = -1
        /\ (b = 0 /\ a # 1010) => r = 2
        /\ (b = 2) => r = 0
        /\ (b \notin {0, 2}) => r = -1
        /\ (b = 0 /\ a = 1390) => r = 2
        /\ (b = 1 /\ a = 909) => r = -1

C1_Witness ==
  /\ call.op = "fwd"
  /\ call.frame.bus = 2
  /\ call.frame.addr = 1010
  /\ call.fwd_ret = 0

\* C2: a lateral-control frame (1010) for which the angle-rate-limit check
\* reports a violation is refused by psa_tx_hook.
C2_ViolationBlocked ==
  (call.op = "tx" /\ call.frame.addr = 1010 /\ call.violation) =>
    call.tx_ret = FALSE

\* C3: psa_tx_hook allows every frame whose identifier is not 1010,
\* whatever its payload and whatever the vehicle state.
C3_NonLkaAllowed ==
  (call.op = "tx" /\ call.frame.addr # 1010) => call.tx_ret = TRUE

C3_Witness ==
  /\ call.op = "tx"
  /\ call.frame.addr = 1390
  /\ call.frame.data[1] = 223
  /\ call.violation
  /\ call.tx_ret
  /\ brake_pressed
  /\ vehicle_moving

\* C5: after psa_rx_hook processes a camera-bus frame 1042, brake_pressed
\* is bit 5 of payload byte 0, and processing the same frame again leaves
\* the vehicle state as it is.
C5_BrakeBit5 ==
  IsRx(2, 1042) =>
    LET again == psa_rx_hook(HookEntry, call.frame)
    IN  /\ brake_pressed = BitOf(call.frame.data[1], 5)
        /\ again.brake_pressed = brake_pressed
        /\ again.gas_pressed = gas_pressed
        /\ again.vehicle_moving = vehicle_moving
        /\ again.vehicle_speed = vehicle_speed
        /\ again.cruise_engaged_prev = cruise_engaged_prev

C5_Witness ==
  /\ IsRx(2, 1042)
  /\ call.frame.data[1] = 32
  /\ brake_pressed
  /\ gas_pressed
  /\ vehicle_moving

\* C6: after psa_rx_hook processes a camera-bus frame 1390, gas_pressed is
\* true exactly when payload byte 3 is not 0.
C6_GasByte3 ==
  IsRx(2, 1390) => (gas_pressed <=> call.frame.data[4] # 0)

C6_Witness ==
  /\ IsRx(2, 1390)
  /\ call.frame.data[4] = 0
  /\ call.frame.data[3] = 255
  /\ ~gas_pressed
  /\ brake_pressed

\* C7: after psa_rx_hook processes an ADAS-bus frame 909 with
\* R = byte0 * 256 + byte1, vehicle_moving is R > 0 and the speed handed to
\* the setter, once, is R / 100; R = 0 gives not moving and 0, R = 2500
\* gives moving and 25.
C7_SpeedBigEndian ==
  IsRx(1, 909) =>
    LET R == (call.frame.data[1] * 256) + call.frame.data[2]
        set == CallsTo("UPDATE_VEHICLE_SPEED")
    IN  /\ vehicle_moving <=> R > 0
        /\ Len(set) = 1
        /\ set[1].arg.num * 100 = R * set[1].arg.den
        /\ set[1].arg.den > 0
        /\ vehicle_speed = set[1].arg
        /\ R = 0 => ~vehicle_moving /\ set[1].arg.num = 0
        /\ R = 2500 => vehicle_moving /\ set[1].arg.num = 25 * set[1].arg.den

C7_Witness ==
  /\ IsRx(1, 909)
  /\ call.frame.data[1] = 9
  /\ call.frame.data[2] = 196
  /\ vehicle_moving
  /\ vehicle_speed.num = 25 * vehicle_speed.den

\* C8: psa_rx_hook calls the cruise-state updater exactly once, with bit 7
\* of payload byte 2, for an ADAS-bus frame 1106, and not at all for any
\* other frame; no other hook calls it.
C8_CruiseUpdater ==
  LET upd == CallsTo("pcm_cruise_check")
  IN  IF IsRx(1, 1106)
        THEN /\ Len(upd) = 1
             /\ upd[1].arg = BitOf(call.frame.data[3], 7)
        ELSE Len(upd) = 0

C8_Witness ==
  /\ IsRx(1, 1106)
  /\ call.frame.data[3] = 128
  /\ Len(CallsTo("pcm_cruise_check")) = 1
  /\ cruise_engaged_prev

\* C9: every (bus, identifier) from which psa_rx_hook extracts a signal is
\* in the registered receive-check catalog with that identifier and bus.
C9_ReadsInCatalog ==
  (call.op = "rx" /\ call.wrote # {}) =>
    \E i \in DOMAIN safety_config.rx_checks :
      /\ safety_config.rx_checks[i].addr = call.frame.addr
      /\ safety_config.rx_checks[i].bus = call.frame.bus

\* C10: the registered transmit whitelist is the single entry (1010,
\* camera bus, length 8); a transmitted frame that matches it has
\* identifier 1010 and bus 2, and none is originated on bus 0 or 1.
C10_Whitelist ==
  /\ Len(safety_config.tx_msgs) = 1
  /\ safety_config.tx_msgs[1] = [addr |-> 1010, bus |-> 2, len |-> 8]
  /\ (call.op = "tx" /\ call.whitelisted) =>
       /\ call.frame.addr = 1010
       /\ call.frame.bus = 2
       /\ call.frame.data_len_code = 8
  /\ (call.op = "tx" /\ call.frame.bus \in {0, 1}) => ~call.whitelisted

C10_Witness ==
  /\ call.op = "tx"
  /\ call.whitelisted
  /\ call.tx_ret
  /\ call.frame.addr = 1010
  /\ call.frame.bus = 2

\* C11: the vehicle state changes only during a psa_rx_hook call:
\* psa_tx_hook, psa_fwd_hook and psa_init leave every field of it as it was.
C11_SingleWriter ==
  [][/\ call'.op \in {"tx", "fwd", "init"} => vehicle_vars' = vehicle_vars
     /\ vehicle_vars' # vehicle_vars => call'.op = "rx"]_vars

C11_Witness ==
  /\ call.op = "init"
  /\ brake_pressed
  /\ gas_pressed
  /\ vehicle_moving
  /\ cruise_engaged_prev

\* The angle decode the transmit validator is documented to perform.
SignExtend14(x) == IF x >= 8192 THEN x - 16384 ELSE x

\* (byte6 << 6) | (byte7 >> 2): byte7 >> 2 is below 64, so | adds.
DecodeAngle(byte6, byte7) == SignExtend14((byte6 * 64) + (byte7 \div 4))

\* Bytes 6 and 7 carrying the signed 14-bit angle A.
EncodeAngle(A) ==
  LET u == A % 16384
  IN  <<u \div 64, (u % 64) * 4>>

\* C12: for a lateral-control frame the transmit validator decodes the
\* commanded angle as (byte6 << 6) | (byte7 >> 2), sign-extended from 14
\* bits, and hands it to the limit check; the decode gives back every angle
\* of -8192..8191 from the bytes built from it.
C12_AngleDecoded ==
  (call.op = "tx" /\ call.frame.addr = 1010) =>
    LET chk == CallsTo("steer_angle_cmd_checks")
    IN  /\ Len(chk) = 1
        /\ chk[1].arg = DecodeAngle(call.frame.data[7], call.frame.data[8])
        /\ \A A \in -8192..8191 :
             DecodeAngle(EncodeAngle(A)[1], EncodeAngle(A)[2]) = A

\* C13: a frame 1010 received on the main bus is never put on any bus by
\* the forwarding path, and every frame 1010 the device puts on the camera
\* bus is a local transmission psa_tx_hook accepted (SpecDev).
C13_StockLkaSuppressed ==
  /\ (wire.op = "rx" /\ wire.frame.bus = 0 /\ wire.frame.addr = 1010) =>
       wire.dst = -1
  /\ (wire.dst = 2 /\ wire.frame.addr = 1010) =>
       /\ wire.op = "tx"
       /\ wire.frame.bus = 2
       /\ psa_tx_hook(wire.frame)
  /\ (wire.op = "rx" /\ wire.dst # -1) =>
       ~(wire.frame.bus = 0 /\ wire.frame.addr = 1010)

C13_Witness ==
  /\ wire.op = "rx"
  /\ wire.frame.bus = 0
  /\ wire.frame.addr = 1010
  /\ wire.dst = -1
  /\ vehicle_moving
  /\ brake_pressed

\* C14: for every frame received on the camera bus psa_rx_hook reports to
\* the stock-ECU-presence detector exactly once, with (identifier = 1010);
\* for a frame received on any other bus it reports nothing.
C14_StockEcuReport ==
  call.op = "rx" =>
    LET rep == CallsTo("generic_rx_checks")
    IN  IF call.frame.bus = 2
          THEN /\ Len(rep) = 1
               /\ rep[1].arg = (call.frame.addr = 1010)
          ELSE Len(rep) = 0

C14_Witness ==
  /\ IsRx(2, 1010)
  /\ Len(CallsTo("generic_rx_checks")) = 1
  /\ CallsTo("generic_rx_checks")[1].arg
  /\ call.wrote = {}

\* The four (bus, identifier) pairs psa_rx_hook reads a signal from.
Recognized(f) ==
  <<f.bus, f.addr>> \in {<<2, 1042>>, <<2, 1390>>, <<1, 909>>, <<1, 1106>>}

\* The calls to fn among the external calls logged in c.
CallsIn(c, fn) == SelectSeq(c.calls, LAMBDA x : x.fn = fn)

\* C15: for every received frame that is not one of (camera, 1042),
\* (camera, 1390), (ADAS, 909), (ADAS, 1106), psa_rx_hook leaves brake,
\* gas, moving, speed and cruise state unchanged and calls neither the
\* speed setter nor the cruise updater.
C15_UnrecognizedIgnored ==
  [][(call'.op = "rx" /\ ~Recognized(call'.frame)) =>
       /\ vehicle_vars' = vehicle_vars
       /\ call'.wrote = {}
       /\ Len(CallsIn(call', "UPDATE_VEHICLE_SPEED")) = 0
       /\ Len(CallsIn(call', "pcm_cruise_check")) = 0]_vars

C15_Witness ==
  /\ IsRx(0, 1042)
  /\ call.frame.data[1] = 32
  /\ ~brake_pressed
  /\ gas_pressed
  /\ vehicle_moving
  /\ cruise_engaged_prev

\* C16: psa_tx_hook returns true for every outbound frame, the
\* lateral-control frame 1010 included, whatever its payload, the vehicle
\* state and the verdict the limit check would give.
C16_VetoIsNoOp ==
  call.op = "tx" => call.tx_ret = TRUE

C16_Witness ==
  /\ call.op = "tx"
  /\ call.frame.addr = 1010
  /\ call.frame.bus = 2
  /\ call.frame.data[7] = 255
  /\ call.violation
  /\ call.whitelisted
  /\ call.tx_ret
  /\ vehicle_moving

\* C17: psa_fwd_hook's result depends only on (source bus, identifier): a
\* decision made in one vehicle state and history is the decision the hook
\* makes for the same arguments in every later state, and making it
\* changes no state (SpecProbe).
C17_FwdStateless ==
  /\ [](fwd_probe.set =>
         psa_fwd_hook(fwd_probe.bus_num, fwd_probe.addr) = fwd_probe.ret)
  /\ [][fwd_probe' # fwd_probe =>
         UNCHANGED <<vehicle_vars, safety_config>>]_vars

C17_Witness ==
  /\ fwd_probe.set
  /\ fwd_probe.bus_num = 0
  /\ fwd_probe.addr = 1010
  /\ fwd_probe.ret = -1
  /\ fwd_probe.at = <<FALSE, FALSE, FALSE, Times0_01(0), FALSE>>
  /\ brake_pressed
  /\ gas_pressed
  /\ vehicle_moving
  /\ cruise_engaged_prev

\* C18: each recognized frame writes only its own signal, so after any
\* sequence of received frames each field holds the value decoded from the
\* most recent frame of its own (bus, identifier), or its initial value if
\* there was none, whatever other frames came in between (SpecHist).
C18_OwnSignalOnly ==
  LET R == (rx_last.speed[1] * 256) + rx_last.speed[2]
  IN  /\ brake_pressed =
           IF rx_last.brake = <<>> THEN FALSE ELSE BitOf(rx_last.brake[1], 5)
      /\ gas_pressed =
           IF rx_last.gas = <<>> THEN FALSE ELSE rx_last.gas[4] # 0
      /\ vehicle_moving =
           IF rx_last.speed = <<>> THEN FALSE ELSE R > 0
      /\ vehicle_speed =
           IF rx_last.speed = <<>>
             THEN [num |-> 0, den |-> 100]
             ELSE [num |-> R, den |-> 100]
      /\ cruise_engaged_prev =
           IF rx_last.cruise = <<>> THEN FALSE ELSE BitOf(rx_last.cruise[3], 7)

C18_Witness ==
  /\ rx_last.brake # <<>>
  /\ rx_last.gas # <<>>
  /\ rx_last.cruise # <<>>
  /\ rx_last.speed # <<>>
  /\ rx_last.speed[1] = 9
  /\ brake_pressed
  /\ ~gas_pressed
  /\ vehicle_moving
  /\ cruise_engaged_prev

(***************************************************************************)
(* Properties of the forwarding chain (SpecFwd).                           *)
(***************************************************************************)
IsPrefix(p, q) ==
  /\ Len(p) <= Len(q)
  /\ \A i \in DOMAIN p : p[i] = q[i]

\* The chain main, camera, main, ... or camera, main, camera, ...
Alternating(first, n) ==
  [i \in 1..n |-> IF i % 2 = 1 THEN first ELSE 2 - first]

\* C4 as stated: the chain of forwards never returns to a bus it has
\* already visited.
C4_NoBusRevisited ==
  \A i, j \in DOMAIN fwd_path :
    (i < j /\ fwd_path[j] # -1) => fwd_path[i] # fwd_path[j]

\* C4 as amended: the chain ends in "no forward" without visiting a bus
\* twice exactly when the identifier is 1010 or the first bus is neither
\* main nor camera (at most camera, main, drop); for every other identifier
\* on the main or the camera bus it alternates between the two, back on its
\* first bus after two hops, and never drops.  No hop forwards a frame onto
\* the bus it came from.
C4_ChainShape ==
  LET b == fwd_path[1]
      ends == fwd_addr = 1010 \/ b \notin {0, 2}
  IN  /\ \A i \in DOMAIN fwd_path :
           i > 1 => fwd_path[i] # fwd_path[i - 1]
      /\ ends => (Last(fwd_path) = -1 \/ ENABLED FwdChainStep)
      /\ ends => C4_NoBusRevisited
      /\ (~ends /\ Len(fwd_path) >= 3) => fwd_path[3] = b
      /\ IF b \notin {0, 2}
           THEN IsPrefix(fwd_path, <<b, -1>>)
           ELSE IF fwd_addr = 1010
             THEN IF b = 0
                    THEN IsPrefix(fwd_path, <<0, -1>>)
                    ELSE IsPrefix(fwd_path, <<2, 0, -1>>)
             ELSE fwd_path = Alternating(b, Len(fwd_path))

C4_Witness ==
  /\ fwd_addr = 1010
  /\ fwd_path = <<2, 0, -1>>

====
